---- MODULE Spec2Model ----
(***************************************************************************)
(* Knowledge base of the voice-agent backend: the sentence packer, the     *)
(* FAISS index with its position-aligned metadata list, their two files on *)
(* disk, the request handlers that ingest, delete, clear and read, and the *)
(* configuration handlers with data/config.json.                           *)
(*                                                                         *)
(* Strings are TLA+ strings; a vector is a triple of integers in tenths,   *)
(* so <<6, 8, 0>> is the unit vector (0.6, 0.8, 0).  A request handler is  *)
(* a coroutine on one asyncio event loop: the statements between two       *)
(* awaits that really suspend run without interleaving, and no service     *)
(* method awaits anything, so a handler is one action.  Where an exception *)
(* or a process crash can fall between two of its statements, the action   *)
(* chooses among the outcomes.  The fault model is a single fault: in one  *)
(* run at most one handler is cut short after its first change of state    *)
(* (by an exception or by the death of the process); the process can die   *)
(* and restart between requests any number of times.                       *)
(*                                                                         *)
(* Spec is the server with its document handlers.  SpecRetrieve runs       *)
(* retrieve once on each of a range of knowledge bases, queries and top_k; *)
(* SpecSplit runs _pack_sentences once on each of a range of splitters and *)
(* sentence lists; SpecConfig is the server with its configuration         *)
(* handlers.                                                               *)
(***************************************************************************)
EXTENDS Integers, Sequences, FiniteSets, TLC

\* ------------------------------------------------------------------ bounds

\* A document is ingested only while the metadata, with its chunks, stays
\* within this many records.
MaxEntries == 3

\* The wall clock (in seconds) stops advancing here.
MaxTime == 1

\* Retrieval on its own: the chunks of the knowledge base it is run on, and
\* the greatest top_k asked for.
MaxChunks == 3
MaxTopK == 3

\* Splitting on its own: the sentences handed to _pack_sentences.
MaxSentences == 3

\* ----------------------------------------------------------- configuration

\* config.json values read by get_settings(); scaled down from 500 / 50.
settings == [chunk_size |-> 12, chunk_overlap |-> 4]

\* KnowledgeBaseService.dimension, scaled down from 384.
kb == [dimension |-> 3]

\* ------------------------------------------------------------ text splitter

Min(a, b) == IF a <= b THEN a ELSE b

RECURSIVE SumLen(_)
\* sum(len(s) for s in parts)
SumLen(parts) ==
    IF parts = <<>> THEN 0 ELSE Len(Head(parts)) + SumLen(Tail(parts))

RECURSIVE Join(_)
\* " ".join(parts)
Join(parts) ==
    IF parts = <<>> THEN ""
    ELSE IF Len(parts) = 1 THEN parts[1]
    ELSE parts[1] \o " " \o Join(Tail(parts))

RECURSIVE LStrip(_)
LStrip(s) ==
    IF Len(s) > 0 /\ SubSeq(s, 1, 1) = " " THEN LStrip(SubSeq(s, 2, Len(s)))
    ELSE s

RECURSIVE RStrip(_)
RStrip(s) ==
    IF Len(s) > 0 /\ SubSeq(s, Len(s), Len(s)) = " "
    THEN RStrip(SubSeq(s, 1, Len(s) - 1))
    ELSE s

\* str.strip() on text whose only whitespace is the space
Strip(s) == LStrip(RStrip(s))

RECURSIVE OverlapFrom(_, _, _, _, _)
\* sp is a SemanticTextSplitter: its chunk_size and chunk_overlap
OverlapFrom(sp, parts, k, overlap, total) ==
    IF k = 0 THEN overlap
    ELSE IF total + Len(parts[k]) + 1 > sp.chunk_overlap THEN overlap
    ELSE OverlapFrom(sp, parts, k - 1, <<parts[k]>> \o overlap,
                     total + Len(parts[k]) + 1)

RECURSIVE OverlapUncounted(_, _, _, _, _)
\* An overlap walk that forgets the joining space of each sentence.
OverlapUncounted(sp, parts, k, overlap, total) ==
    IF k = 0 THEN overlap
    ELSE IF total + Len(parts[k]) > sp.chunk_overlap THEN overlap
    ELSE OverlapUncounted(sp, parts, k - 1, <<parts[k]>> \o overlap,
                          total + Len(parts[k]))

BuildOverlapUncounted(sp, parts) ==
    OverlapUncounted(sp, parts, Len(parts), <<>>, 0)

\* SemanticTextSplitter._build_overlap
BuildOverlap(sp, parts) == OverlapFrom(sp, parts, Len(parts), <<>>, 0)

RECURSIVE HardSplitFrom(_, _, _)
HardSplitFrom(sp, text, i) ==
    IF i >= Len(text) THEN <<>>
    ELSE <<SubSeq(text, i + 1, Min(i + sp.chunk_size, Len(text)))>>
         \o HardSplitFrom(sp, text, i + sp.chunk_size - sp.chunk_overlap)

\* SemanticTextSplitter._hard_split (chunk_overlap < chunk_size)
HardSplit(sp, text) == HardSplitFrom(sp, text, 0)

RECURSIVE PackFrom(_, _, _, _, _, _)
\* the loop of _pack_sentences from sentence k on
PackFrom(sp, sentences, k, chunks, current_parts, current_len) ==
    IF k > Len(sentences)
    THEN IF current_parts # <<>> THEN Append(chunks, Join(current_parts)) ELSE chunks
    ELSE LET sent == sentences[k]
             sent_len == Len(sent)
         IN  IF sent_len > sp.chunk_size
             THEN LET flushed == IF current_parts # <<>>
                                 THEN Append(chunks, Join(current_parts))
                                 ELSE chunks
                  IN  PackFrom(sp, sentences, k + 1, flushed \o HardSplit(sp, sent),
                               <<>>, 0)
             ELSE IF current_len + sent_len + 1 > sp.chunk_size /\ current_parts # <<>>
             THEN LET overlap_parts == BuildOverlap(sp, current_parts)
                  IN  PackFrom(sp, sentences, k + 1,
                               Append(chunks, Join(current_parts)),
                               Append(overlap_parts, sent),
                               SumLen(overlap_parts) + sent_len + 1)
             ELSE PackFrom(sp, sentences, k + 1, chunks,
                           Append(current_parts, sent), current_len + sent_len + 1)

RECURSIVE StripAll(_)
\* [c.strip() for c in chunks if c.strip()]
StripAll(chunks) ==
    IF chunks = <<>> THEN <<>>
    ELSE IF Strip(Head(chunks)) = "" THEN StripAll(Tail(chunks))
    ELSE <<Strip(Head(chunks))>> \o StripAll(Tail(chunks))

\* SemanticTextSplitter._pack_sentences
PackSentences(sp, sentences) == StripAll(PackFrom(sp, sentences, 1, <<>>, <<>>, 0))

\* ---------------------------------------------------------- uploaded files

\* What a client can upload: a file name and the sentences that
\* _clean_text and _split_into_sentences find in its text.
Files ==
    { [filename |-> "a.txt", sentences |-> <<"Red fox.">>],
      [filename |-> "b.pdf", sentences |-> <<"Blue jay.", "Grey hen.">>],
      [filename |-> "e.docx", sentences |-> <<>>],
      [filename |-> "x.exe", sentences |-> <<"Mz.">>] }

Filenames == {f.filename : f \in Files}

RECURSIVE ExtFrom(_, _)
ExtFrom(filename, k) ==
    IF k = 0 THEN ""
    ELSE IF SubSeq(filename, k, k) = "." THEN SubSeq(filename, k, Len(filename))
    ELSE ExtFrom(filename, k - 1)

\* os.path.splitext(file_path)[1].lower(), on lower-case names
Ext(filename) == ExtFrom(filename, Len(filename))

SupportedExt == {".pdf", ".docx", ".txt"}

\* ----------------------------------------------------------------- vectors

\* The sentence-transformer model followed by normalize_L2: a fixed function
\* from a text to a unit vector.
Embed(text) ==
    CASE text = "Red fox."  -> <<10, 0, 0>>
      [] text = "Blue jay." -> <<6, 8, 0>>
      [] text = "Grey hen." -> <<-8, 6, 0>>
      [] text = "Tide."     -> <<6, 0, 8>>
      [] text = "Surf."     -> <<8, 0, 6>>
      [] text = "Dune."     -> <<8, 6, 0>>
      [] text = "Fox?"      -> <<8, 6, 0>>
      [] text = "Sea?"      -> <<0, 6, 8>>
      [] text = "Sky?"      -> <<0, 0, 10>>
      [] OTHER              -> <<0, -10, 0>>

\* KnowledgeBaseService.SCORE_THRESHOLD, 0.30 in hundredths
SCORE_THRESHOLD == 30

\* KnowledgeBaseService.MMR_LAMBDA, 0.7 in tenths
MMR_LAMBDA == 7

\* The score faiss gives a result slot it could not fill (-FLT_MAX): below
\* every inner product of two unit vectors, which lie in -100..100.
PAD_SCORE == -101

\* What reconstruct() can leave in the buffer for a position outside the index
\* (np.zeros is untouched, or memory past the stored codes is copied).
StrayVectors == {<<0, 0, 0>>}

\* ---------------------------------------------------------------- retrieval

RECURSIVE Dot(_, _)
\* the inner product of two vectors, in hundredths
Dot(u, v) ==
    IF u = <<>> \/ v = <<>> THEN 0 ELSE Head(u) * Head(v) + Dot(Tail(u), Tail(v))

RECURSIVE TopHits(_, _, _)
\* the k best positions of S by score, best first (equal scores by
\* position), as <<position, score>>; a slot that cannot be filled holds
\* position 0 (faiss gives -1) and PAD_SCORE
TopHits(scores, S, k) ==
    IF k = 0 THEN <<>>
    ELSE IF S = {} THEN <<<<0, PAD_SCORE>>>> \o TopHits(scores, S, k - 1)
    ELSE LET best == CHOOSE p \in S : \A r \in S :
                        \/ scores[p] > scores[r]
                        \/ scores[p] = scores[r] /\ p <= r
         IN  <<<<best, scores[best]>>>> \o TopHits(scores, S \ {best}, k - 1)

\* self.index.search(q_vec, fetch_k): by inner product with q_vec
Search(idx, q_vec, fetch_k) ==
    TopHits([p \in DOMAIN idx |-> Dot(q_vec, idx[p])], DOMAIN idx, fetch_k)

\* KnowledgeBaseService._get_vector; reconstruct() of a position the index
\* does not hold yields stray
GetVector(idx, pos, stray) == IF pos \in DOMAIN idx THEN idx[pos] ELSE stray

\* max(sel_vecs @ cand_vec)
MaxSim(idx, selected, cand, stray) ==
    LET sims == {Dot(GetVector(idx, selected[i][1], stray),
                     GetVector(idx, cand[1], stray)) : i \in DOMAIN selected}
    IN  CHOOSE x \in sims : \A y \in sims : x >= y

\* A score that forgets the similarity to what is already selected.
MmrRelevanceOnly(idx, selected, cand, stray) == MMR_LAMBDA * cand[2]

\* MMR_LAMBDA * rel - (1 - MMR_LAMBDA) * sim_to_selected, in thousandths
Mmr(idx, selected, cand, stray) ==
    MMR_LAMBDA * cand[2] - (10 - MMR_LAMBDA) * MaxSim(idx, selected, cand, stray)

\* the first element of remaining whose key, keys[i], is the greatest
FirstBest(remaining, keys) ==
    remaining[CHOOSE i \in DOMAIN remaining :
                 /\ \A j \in DOMAIN remaining : keys[i] >= keys[j]
                 /\ \A j \in 1..(i - 1) : keys[j] < keys[i]]

\* remaining.remove(best): without the first element equal to best
Remove(remaining, best) ==
    LET i == CHOOSE i \in DOMAIN remaining :
                 remaining[i] = best /\ \A j \in 1..(i - 1) : remaining[j] # best
    IN  SubSeq(remaining, 1, i - 1) \o SubSeq(remaining, i + 1, Len(remaining))

RECURSIVE MmrFrom(_, _, _, _, _)
\* the loop of _mmr_select
MmrFrom(idx, selected, remaining, k, stray) ==
    IF remaining = <<>> \/ Len(selected) >= k THEN selected
    ELSE LET keys == [i \in DOMAIN remaining |->
                        IF selected = <<>> THEN remaining[i][2]
                        ELSE Mmr(idx, selected, remaining[i], stray)]
             best == FirstBest(remaining, keys)
         IN  MmrFrom(idx, Append(selected, best), Remove(remaining, best), k, stray)

\* KnowledgeBaseService._mmr_select
MmrSelect(idx, candidates, k, stray) == MmrFrom(idx, <<>>, candidates, k, stray)

\* _mmr_select reconstructs the vectors of the selected and of the remaining
\* candidates from its second pick on
Reconstructed(candidates, k) ==
    IF Len(candidates) >= 2 /\ k >= 2 THEN {candidates[i][1] : i \in DOMAIN candidates}
    ELSE {}

\* The candidates of retrieve: the hits at or above the threshold, or, when
\* there is none, the first top_k hits.  idx < len(self.metadata) is true of
\* faiss's -1.
Candidates(hits, meta, top_k) ==
    LET passing == SelectSeq(hits, LAMBDA h : h[1] <= Len(meta) /\ h[2] >= SCORE_THRESHOLD)
    IN  IF passing # <<>> THEN passing
        ELSE SelectSeq(SubSeq(hits, 1, Min(top_k, Len(hits))),
                       LAMBDA h : h[1] <= Len(meta))

\* The candidates retrieve hands to _mmr_select
RetrieveCandidates(idx, meta, query, top_k) ==
    Candidates(Search(idx, Embed(query), Min(top_k * 4, Len(meta))), meta, top_k)

\* The exception raised inside retrieve's try block, if any: _embed fails
\* (fault = "embed"), or reconstruct() raises (stray = <<>>) for a position
\* the index does not hold.  An empty metadata list returns before both.
RetrieveError(idx, meta, query, top_k, stray, fault) ==
    IF meta = <<>> THEN "none"
    ELSE IF fault = "embed" THEN "embedding_failed"
    ELSE IF stray = <<>>
            /\ \E pos \in Reconstructed(RetrieveCandidates(idx, meta, query, top_k), top_k) :
                  pos \notin DOMAIN idx
    THEN "reconstruct_failed"
    ELSE "none"

\* KnowledgeBaseService.retrieve when nothing fails: the chunks, sources and
\* scores, one record per result.  self.metadata[-1] is the last record.  An
\* exception inside (reconstruct() raising, when stray = <<>>) gives the
\* empty result.
RetrieveResult(idx, meta, query, top_k, stray) ==
    IF meta = <<>> THEN <<>>
    ELSE LET candidates == RetrieveCandidates(idx, meta, query, top_k)
         IN  IF stray = <<>> /\ \E pos \in Reconstructed(candidates, top_k) :
                                    pos \notin DOMAIN idx
             THEN <<>>
             ELSE LET selected == MmrSelect(idx, candidates, top_k, stray)
                  IN  [i \in 1..Len(selected) |->
                         LET m == meta[IF selected[i][1] = 0 THEN Len(meta)
                                       ELSE selected[i][1]]
                         IN  [chunk  |-> m.text,
                              source |-> <<m.filename, m.chunk_index>>,
                              score  |-> selected[i][2]]]

\* A retrieve whose except clause is missing: the exception reaches the caller.
RetrieveUnguarded(idx, meta, query, top_k, stray, fault) ==
    LET error == RetrieveError(idx, meta, query, top_k, stray, fault)
    IN  [pc      |-> IF error = "none" THEN "returned" ELSE "raised",
         error   |-> error,
         results |-> IF error = "none"
                     THEN RetrieveResult(idx, meta, query, top_k, stray) ELSE <<>>]

\* KnowledgeBaseService.retrieve as its caller sees it: it returns, with the
\* empty result when an exception was caught and logged (error).
RetrieveCall(idx, meta, query, top_k, stray, fault) ==
    LET error == RetrieveError(idx, meta, query, top_k, stray, fault)
    IN  [pc      |-> "returned",
         error   |-> error,
         results |-> IF error = "none"
                     THEN RetrieveResult(idx, meta, query, top_k, stray) ELSE <<>>]

\* ------------------------------------------------------------ serialization

RECURSIVE Flatten(_)
Flatten(vectors) ==
    IF vectors = <<>> THEN <<>> ELSE Head(vectors) \o Flatten(Tail(vectors))

\* A path that does not exist, and a file cut short or otherwise unreadable.
NoIndexFile == [kind |-> "none", d |-> 0, ntotal |-> 0, codes |-> <<>>]
CorruptIndexFile == [kind |-> "corrupt", d |-> 0, ntotal |-> 0, codes |-> <<>>]
NoMetaFile == [kind |-> "none", objects |-> <<>>]
CorruptMetaFile == [kind |-> "corrupt", objects |-> <<>>]

\* faiss.write_index on an IndexFlatIP: the header and the packed codes
WriteIndex(idx) ==
    [kind |-> "ok", d |-> kb.dimension, ntotal |-> Len(idx), codes |-> Flatten(idx)]

\* faiss.read_index: vector i is the i-th run of d numbers of the codes
ReadIndex(file) ==
    [i \in 1..file.ntotal |-> SubSeq(file.codes, (i - 1) * file.d + 1, i * file.d)]

\* json.dump of the metadata list: one object (a list of key/value pairs) per record
JsonDump(meta) ==
    [kind |-> "ok",
     objects |-> [i \in 1..Len(meta) |->
        << <<"doc_id", meta[i].doc_id>>, <<"filename", meta[i].filename>>,
           <<"chunk_index", meta[i].chunk_index>>, <<"text", meta[i].text>>,
           <<"created_at", meta[i].created_at>> >>]]

\* the value of key in a parsed JSON object
JsonGet(obj, key) == obj[CHOOSE j \in DOMAIN obj : obj[j][1] = key][2]

\* json.load of the metadata file
JsonLoad(file) ==
    [i \in 1..Len(file.objects) |->
        [doc_id      |-> JsonGet(file.objects[i], "doc_id"),
         filename    |-> JsonGet(file.objects[i], "filename"),
         chunk_index |-> JsonGet(file.objects[i], "chunk_index"),
         text        |-> JsonGet(file.objects[i], "text"),
         created_at  |-> JsonGet(file.objects[i], "created_at")]]

\* ------------------------------------------------- configuration file

\* The attributes of Settings that the model keeps: one API key, and the two
\* that the text splitter is built from.
ConfigKeys == {"gemini_api_key", "chunk_size", "chunk_overlap"}

\* Settings._set_defaults
Defaults ==
    [gemini_api_key |-> "",
     chunk_size     |-> settings.chunk_size,
     chunk_overlap  |-> settings.chunk_overlap]

\* data/config.json: absent, or a JSON object (data) holding some of the keys
NoConfigFile == [kind |-> "none"]
ConfigFile(data) == [kind |-> "ok", data |-> data]

\* Settings.load_config: the keys the file holds, the defaults for the others
\* (config.get(key, default), and config.get(key) or "" for an API key)
LoadConfig(file) ==
    IF file.kind = "ok"
    THEN [k \in ConfigKeys |->
             IF k \in DOMAIN file.data THEN file.data[k] ELSE Defaults[k]]
    ELSE Defaults

\* Settings.to_dict: every attribute under its own name
ToDict(cfg) == [k \in ConfigKeys |-> cfg[k]]

\* Settings.save_config: json.dump(self.to_dict(), f)
SaveConfig(cfg) == ConfigFile(ToDict(cfg))

\* SemanticTextSplitter(chunk_size=settings.chunk_size,
\*                      chunk_overlap=settings.chunk_overlap)
Splitter(cfg) == [chunk_size |-> cfg.chunk_size, chunk_overlap |-> cfg.chunk_overlap]

\* A request body of /api/config: for each key, <<>> when the body does not
\* hold it, <<value>> when it does.  theme is a key Settings has no
\* attribute for.
BodyKeys == ConfigKeys \cup {"theme"}
Bodies ==
    [gemini_api_key : {<<>>, <<"">>, <<"g1">>},
     chunk_size     : {<<>>, <<12>>, <<16>>},
     chunk_overlap  : {<<>>, <<4>>, <<0>>},
     theme          : {<<>>, <<"dark">>}]

\* for key, value in config_data.items():
\*     if hasattr(current_settings, key): setattr(current_settings, key, value)
SetAttrs(cfg, body) ==
    [k \in ConfigKeys |-> IF body[k] # <<>> THEN body[k][1] ELSE cfg[k]]

\* ------------------------------------------------------------------- state

VARIABLES
    up,         \* the server process is running
    now,        \* datetime.now(), in whole seconds
    index,      \* KnowledgeBaseService.index: the stored vectors, in order
    metadata,   \* KnowledgeBaseService.metadata
    diskIndex,  \* data/faiss_index.index
    diskMeta,   \* data/metadata.json
    faulted,    \* a handler has been cut short after its first change of state
    call,       \* the last call: its status (or "called": not run yet) and value
    lastSave,   \* what the latest _save_index call was given, and whether both writes finished
    config,     \* the attributes of the Settings singleton
    diskConfig, \* data/config.json
    text_splitter   \* KnowledgeBaseService.text_splitter: chunk_size, chunk_overlap

vars ==
    <<up, now, index, metadata, diskIndex, diskMeta, faulted, call, lastSave,
      config, diskConfig, text_splitter>>

\* The configuration and what was built from it.
configuration == <<config, diskConfig, text_splitter>>


\* What a handler returns besides its status: ingest_document's doc_id and
\* chunk count, list_documents' summaries, retrieve's chunks with their
\* sources and scores, next to the query and top_k it was called with;
\* _pack_sentences' chunks (split) next to its sentences; the body of a
\* configuration request and the "config" of its response.
NoValue ==
    [doc_id |-> <<>>, chunks |-> 0, documents |-> <<>>,
     query |-> "", top_k |-> 0, results |-> <<>>,
     sentences |-> <<>>, split |-> <<>>,
     body |-> <<>>, config |-> <<>>]

\* The handler of operation op ended in status ("returned", "raised" or
\* "crashed") with the given error, value and _save_index outcome; status
\* "called" is a call that has its arguments in value and has not run yet.
Call(op, status, error, value, save) ==
    [op |-> op, pc |-> status, error |-> error, value |-> value, save |-> save]

\* A load that reads the index file and forgets the metadata file.
LoadIndexOnly(indexFile, metaFile) ==
    [index    |-> IF indexFile.kind = "ok" THEN ReadIndex(indexFile) ELSE <<>>,
     metadata |-> <<>>]

\* KnowledgeBaseService._load_index on the two files
LoadIndex(indexFile, metaFile) ==
    IF indexFile.kind = "corrupt"
    THEN [index |-> <<>>, metadata |-> <<>>]
    ELSE LET idx == IF indexFile.kind = "ok" THEN ReadIndex(indexFile) ELSE <<>>
         IN  IF metaFile.kind = "ok"
             THEN [index |-> idx, metadata |-> JsonLoad(metaFile)]
             ELSE [index |-> idx, metadata |-> <<>>]

\* How far _save_index gets: both files written; the index file not opened;
\* the index file cut short; the index file written and the metadata file
\* not opened; the index file written and the metadata file cut short.
SaveOutcomes == {"ok", "index_unwritten", "index_cut", "meta_unwritten", "meta_cut"}

\* KnowledgeBaseService._save_index: the two files after it got as far as outcome
SaveIndex(idx, meta, outcome) ==
    [diskIndex |-> CASE outcome = "index_unwritten" -> diskIndex
                     [] outcome = "index_cut" -> CorruptIndexFile
                     [] OTHER -> WriteIndex(idx),
     diskMeta  |-> CASE outcome = "ok" -> JsonDump(meta)
                     [] outcome = "meta_cut" -> CorruptMetaFile
                     [] OTHER -> diskMeta]

Init ==
    /\ up = TRUE
    /\ now = 0
    /\ diskIndex = NoIndexFile
    /\ diskMeta = NoMetaFile
    /\ faulted = FALSE
    /\ index = LoadIndex(NoIndexFile, NoMetaFile).index
    /\ metadata = LoadIndex(NoIndexFile, NoMetaFile).metadata
    /\ call = [op |-> "load", pc |-> "returned", error |-> "none",
               value |-> NoValue, save |-> "none"]
    /\ lastSave = [complete |-> FALSE, index |-> <<>>, metadata |-> <<>>]
    /\ diskConfig = NoConfigFile
    /\ config = LoadConfig(NoConfigFile)
    /\ text_splitter = Splitter(LoadConfig(NoConfigFile))

\* The clock advances.
Tick ==
    /\ now < MaxTime
    /\ now' = now + 1
    /\ UNCHANGED <<up, index, metadata, diskIndex, diskMeta, faulted, call, lastSave>>
    /\ UNCHANGED configuration

\* A handler that leaves without reaching _save_index: memory is as given,
\* the files are untouched.
Leave(op, status, error, value, idx, meta) ==
    /\ index' = idx
    /\ metadata' = meta
    /\ call' = Call(op, status, error, value, "none")
    /\ UNCHANGED <<up, now, diskIndex, diskMeta, lastSave>>
    /\ UNCHANGED configuration

\* A handler that has stored idx and meta and calls _save_index as its last
\* statement.  _save_index logs an exception and returns, so the handler
\* returns normally however far the save got; or the process dies at that
\* point of the save (dies) and memory is lost.
SaveAndReturn(op, value, idx, meta) ==
    \E outcome \in SaveOutcomes, dies \in BOOLEAN :
       /\ outcome # "ok" \/ dies => ~faulted
       /\ faulted' = (faulted \/ outcome # "ok" \/ dies)
       /\ diskIndex' = SaveIndex(idx, meta, outcome).diskIndex
       /\ diskMeta' = SaveIndex(idx, meta, outcome).diskMeta
       /\ lastSave' = [complete |-> outcome = "ok", index |-> idx, metadata |-> meta]
       /\ up' = ~dies
       /\ index' = IF dies THEN <<>> ELSE idx
       /\ metadata' = IF dies THEN <<>> ELSE meta
       /\ call' = Call(op, IF dies THEN "crashed" ELSE "returned", "none",
                       value, outcome)
       /\ UNCHANGED now
       /\ UNCHANGED configuration

\* The record ingest_document appends for chunk i (counted from 1) of a
\* document.  created_at is datetime.now() at that append: the second, and
\* within it the appends of one call in their order.
Record(doc_id, filename, i, chunk) ==
    [doc_id |-> doc_id, filename |-> filename, chunk_index |-> i - 1,
     text |-> chunk, created_at |-> <<now, i - 1>>]

\* text_splitter.split_text on each uploadable file
Chunks == [f \in Files |-> PackSentences(settings, f.sentences)]

\* POST /api/documents/upload: KnowledgeBaseService.ingest_document.
\* Extraction or embedding can fail (fault); an empty chunk list makes
\* normalize_L2 fail.  index.add stores every vector, then the loop appends one
\* record per chunk: all of them (j = n), or an append runs out of memory
\* after j of them and the exception leaves the method.
IngestDocument(f) ==
    /\ up
    /\ Len(metadata) + Len(Chunks[f]) <= MaxEntries
    /\ \E fault \in {"none", "extract", "embed"} :
         LET chunks == Chunks[f]
             doc_id == <<now, f.filename>>
             embeddings == [i \in 1..Len(chunks) |-> Embed(chunks[i])]
             value == [NoValue EXCEPT !.doc_id = doc_id, !.chunks = Len(chunks)]
             error ==
                 IF Ext(f.filename) \notin SupportedExt THEN "unsupported_format"
                 ELSE IF fault = "extract" THEN "extraction_failed"
                 ELSE IF fault = "embed" \/ chunks = <<>> THEN "embedding_failed"
                 ELSE "none"
         IN  IF error # "none"
             THEN /\ Leave("ingest", "raised", error, NoValue, index, metadata)
                  /\ UNCHANGED faulted
             ELSE \E j \in 0..Len(chunks) :
                    LET new_index == index \o embeddings
                        new_meta == metadata \o
                            [i \in 1..j |-> Record(doc_id, f.filename, i, chunks[i])]
                    IN  IF j < Len(chunks)
                        THEN /\ ~faulted
                             /\ faulted' = TRUE
                             /\ Leave("ingest", "raised", "memory_error", NoValue,
                                      new_index, new_meta)
                        ELSE SaveAndReturn("ingest", value, new_index, new_meta)

\* The positions whose record does not belong to doc_id, in order.
Keep(meta, doc_id) ==
    SelectSeq([i \in 1..Len(meta) |-> i], LAMBDA i : meta[i].doc_id # doc_id)

\* The positions of meta that hold the first record of their doc_id.
Firsts(meta) ==
    SelectSeq([i \in 1..Len(meta) |-> i],
              LAMBDA i : \A j \in 1..(i - 1) : meta[j].doc_id # meta[i].doc_id)

\* A listing that overwrites created_at with every record of the document.
ListDocsLastStamp(meta) ==
    [k \in 1..Len(Firsts(meta)) |->
        LET d == meta[Firsts(meta)[k]].doc_id
            of_d == {j \in 1..Len(meta) : meta[j].doc_id = d}
        IN  [doc_id     |-> d,
             filename   |-> meta[Firsts(meta)[k]].filename,
             chunks     |-> Cardinality(of_d),
             created_at |-> meta[CHOOSE j \in of_d : \A i \in of_d : i <= j].created_at]]

\* KnowledgeBaseService.list_documents: one summary per doc_id, in order of
\* first appearance, with the filename and created_at of its first record.
ListDocs(meta) ==
    LET firsts == SelectSeq([i \in 1..Len(meta) |-> i],
                     LAMBDA i : \A j \in 1..(i - 1) : meta[j].doc_id # meta[i].doc_id)
    IN  [k \in 1..Len(firsts) |->
            [doc_id     |-> meta[firsts[k]].doc_id,
             filename   |-> meta[firsts[k]].filename,
             chunks     |-> Cardinality({j \in 1..Len(meta) :
                                           meta[j].doc_id = meta[firsts[k]].doc_id}),
             created_at |-> meta[firsts[k]].created_at]]

\* The doc_id values a client may ask to delete.
DocIds == {<<t, fn>> : t \in 0..MaxTime, fn \in {"a.txt", "b.pdf"}}

\* delete_document's rebuild: the vectors and records at the kept positions.
\* reconstruct() of a position the index does not hold yields stray.
Rebuild(idx, meta, keep, stray) ==
    [index    |-> [i \in 1..Len(keep) |->
                     IF keep[i] <= Len(idx) THEN idx[keep[i]] ELSE stray],
     metadata |-> [i \in 1..Len(keep) |-> meta[keep[i]]]]

\* What reconstruct() can do when asked for these positions: nothing but
\* answer when the index holds them all (<<>>: no stray vector is involved);
\* otherwise raise (<<>>) or yield a stray vector.
Strays(idx, positions) ==
    IF positions \subseteq DOMAIN idx THEN {<<>>} ELSE StrayVectors \cup {<<>>}

\* A not-found test that only fires when nothing at all is kept.
NotFoundWhenNothingKept(keep, meta) == Len(keep) = 0

\* delete_document: len(keep) == len(self.metadata), no record matches
NotFound(keep, meta) == Len(keep) = Len(meta)

\* DELETE /api/documents/{doc_id}: KnowledgeBaseService.delete_document.
\* reconstruct() of a position the index does not hold raises (stray = <<>>)
\* or yields a stray vector, depending on the faiss build.
DeleteDocument(d) ==
    /\ up
    /\ LET keep == Keep(metadata, d)
       IN  IF NotFound(keep, metadata)
           THEN /\ Leave("delete", "raised", "not_found", NoValue, index, metadata)
                /\ UNCHANGED faulted
           ELSE \E stray \in Strays(index, {keep[i] : i \in DOMAIN keep}) :
                  IF stray = <<>> /\ \E i \in 1..Len(keep) : keep[i] > Len(index)
                  THEN /\ Leave("delete", "raised", "reconstruct_failed", NoValue,
                                index, metadata)
                       /\ UNCHANGED faulted
                  ELSE SaveAndReturn("delete", NoValue,
                                     Rebuild(index, metadata, keep, stray).index,
                                     Rebuild(index, metadata, keep, stray).metadata)

\* DELETE /api/documents: KnowledgeBaseService.clear_all
ClearAll ==
    /\ up
    /\ SaveAndReturn("clear", NoValue, <<>>, <<>>)

\* GET /api/documents: KnowledgeBaseService.list_documents
ListDocuments ==
    /\ up
    /\ Leave("list", "returned", "none",
             [NoValue EXCEPT !.documents = ListDocs(metadata)], index, metadata)
    /\ UNCHANGED faulted

\* The questions a client asks, and the top_k that query_agent passes.
Queries == {"Fox?"}
TopK == {3}

\* One call of KnowledgeBaseService.retrieve and what it gives its caller.
RetrieveStep(query, top_k, stray, fault) ==
    /\ up
    /\ \E r \in {RetrieveCall(index, metadata, query, top_k, stray, fault)} :
          Leave("retrieve", r.pc, r.error,
                [NoValue EXCEPT !.query = query, !.top_k = top_k,
                                !.results = r.results],
                index, metadata)
    /\ UNCHANGED faulted

\* POST /api/agent/query: KnowledgeBaseService.retrieve.  The search fills
\* fetch_k slots; _mmr_select may reconstruct the position of any of them.
Retrieve ==
    \E query \in Queries, top_k \in TopK, fault \in {"none", "embed"} :
       \E stray \in Strays(index, 1..Min(top_k * 4, Len(metadata))) :
          RetrieveStep(query, top_k, stray, fault)

\* The process dies between two requests.  Memory is lost; Settings and the
\* text splitter are rebuilt by Start before anything reads them.
Crash ==
    /\ up
    /\ up' = FALSE
    /\ index' = <<>>
    /\ metadata' = <<>>
    /\ call' = Call("none", "crashed", "none", NoValue, "none")
    /\ UNCHANGED <<now, diskIndex, diskMeta, faulted, lastSave>>
    /\ UNCHANGED configuration

\* The process starts: Settings() loads data/config.json, then
\* KnowledgeBaseService() is built, with its text splitter, and _load_index
\* runs.
Start ==
    /\ ~up
    /\ up' = TRUE
    /\ config' = LoadConfig(diskConfig)
    /\ text_splitter' = Splitter(LoadConfig(diskConfig))
    /\ index' = LoadIndex(diskIndex, diskMeta).index
    /\ metadata' = LoadIndex(diskIndex, diskMeta).metadata
    /\ call' = Call("load", "returned", "none", NoValue, "none")
    /\ UNCHANGED <<now, diskIndex, diskMeta, diskConfig, faulted, lastSave>>

Next ==
    \/ Tick
    \/ \E f \in Files : IngestDocument(f)
    \/ \E d \in DocIds : DeleteDocument(d)
    \/ ClearAll
    \/ ListDocuments
    \/ Retrieve
    \/ Crash
    \/ Start

Spec == Init /\ [][Next]_vars

\* ------------------------------------------------------ retrieval on its own

\* The chunk texts and the questions retrieval is run on.
ProbeTexts == {"Tide.", "Surf.", "Dune.", "Red fox."}
ProbeQueries == {"Sea?", "Sky?", "Fox?"}

\* every sequence over S of length at most n
SeqsUpTo(S, n) == UNION {[1..m -> S] : m \in 0..n}

\* The knowledge base after ingest_document of one file k.txt with these
\* chunks on an empty knowledge base.
Ingested(chunks) ==
    [index    |-> [i \in 1..Len(chunks) |-> Embed(chunks[i])],
     metadata |-> [i \in 1..Len(chunks) |->
                     Record(<<now, "k.txt">>, "k.txt", i, chunks[i])]]

\* The ways index and metadata stand to each other (see C1): aligned; with
\* the vector of an ingest_document that raised before its records were
\* appended, in front ("orphan"); with the index that a clear_all wrote
\* before the process died ahead of the metadata file, loaded at restart
\* ("lost").
Skews == {"aligned", "orphan", "lost"}

Skewed(base, skew) ==
    [index    |-> CASE skew = "orphan" -> <<Embed("Red fox.")>> \o base.index
                    [] skew = "lost" -> <<>>
                    [] OTHER -> base.index,
     metadata |-> base.metadata]

\* A knowledge base with up to MaxChunks chunks and a call of
\* retrieve(query, top_k) that has not run yet.
InitRetrieve ==
    /\ up = TRUE
    /\ now = 0
    /\ diskIndex = NoIndexFile
    /\ diskMeta = NoMetaFile
    /\ faulted = FALSE
    /\ \E chunks \in SeqsUpTo(ProbeTexts, MaxChunks), skew \in Skews :
          /\ index = Skewed(Ingested(chunks), skew).index
          /\ metadata = Skewed(Ingested(chunks), skew).metadata
    /\ \E query \in ProbeQueries, top_k \in 1..MaxTopK :
          call = Call("retrieve", "called", "none",
                      [NoValue EXCEPT !.query = query, !.top_k = top_k], "none")
    /\ lastSave = [complete |-> FALSE, index |-> <<>>, metadata |-> <<>>]
    /\ diskConfig = NoConfigFile
    /\ config = LoadConfig(NoConfigFile)
    /\ text_splitter = Splitter(LoadConfig(NoConfigFile))

\* The call runs: KnowledgeBaseService.retrieve(query, top_k)
RetrieveAsked ==
    /\ call.op = "retrieve" /\ call.pc = "called"
    /\ \E fault \in {"none", "embed"} :
       \E stray \in Strays(index, 1..Min(call.value.top_k * 4, Len(metadata))) :
          RetrieveStep(call.value.query, call.value.top_k, stray, fault)

NextRetrieve == RetrieveAsked

SpecRetrieve == InitRetrieve /\ [][NextRetrieve]_vars

\* --------------------------------------------------- splitting on its own

\* The sentences _split_into_sentences hands to _pack_sentences: stripped,
\* not empty, of 3, 3, 4, 8, 9, 21 and 26 characters.
SplitTexts ==
    {"Ab.", "Cd.", "Wxy.", "Efghijk.", "Cdefghij.", "Abcdefghijklmnopqrst.",
     "Abcdefg hijklmnop qrstuvw."}

\* The text splitters: every chunk_size and chunk_overlap of these with
\* chunk_overlap < chunk_size.
Splitters ==
    {sp \in [chunk_size : {8, 12}, chunk_overlap : {0, 4}] :
        sp.chunk_overlap < sp.chunk_size}

\* A server configured with one of the splitters, and a call of
\* _pack_sentences on up to MaxSentences sentences that has not run yet.
InitSplit ==
    /\ up = TRUE
    /\ now = 0
    /\ diskIndex = NoIndexFile
    /\ diskMeta = NoMetaFile
    /\ faulted = FALSE
    /\ index = <<>>
    /\ metadata = <<>>
    /\ lastSave = [complete |-> FALSE, index |-> <<>>, metadata |-> <<>>]
    /\ \E sp \in Splitters :
          /\ config = [Defaults EXCEPT !.chunk_size = sp.chunk_size,
                                       !.chunk_overlap = sp.chunk_overlap]
          /\ diskConfig = SaveConfig(config)
          /\ text_splitter = Splitter(config)
    /\ \E sentences \in SeqsUpTo(SplitTexts, MaxSentences) :
          call = Call("pack_sentences", "called", "none",
                      [NoValue EXCEPT !.sentences = sentences], "none")

\* The call runs: self.text_splitter._pack_sentences(sentences)
PackAsked ==
    /\ call.op = "pack_sentences" /\ call.pc = "called"
    /\ call' = Call("pack_sentences", "returned", "none",
                    [call.value EXCEPT
                        !.split = PackSentences(text_splitter, call.value.sentences)],
                    "none")
    /\ UNCHANGED <<up, now, index, metadata, diskIndex, diskMeta, faulted, lastSave>>
    /\ UNCHANGED configuration

NextSplit == PackAsked

SpecSplit == InitSplit /\ [][NextSplit]_vars

\* ---------------------------------------------- the configuration requests

\* The configuration files a server may start on: none, or one written by
\* hand that holds a key only.
StartFiles == {NoConfigFile, ConfigFile([gemini_api_key |-> "g0"])}

InitConfig ==
    /\ up = TRUE
    /\ now = 0
    /\ diskIndex = NoIndexFile
    /\ diskMeta = NoMetaFile
    /\ faulted = FALSE
    /\ index = <<>>
    /\ metadata = <<>>
    /\ lastSave = [complete |-> FALSE, index |-> <<>>, metadata |-> <<>>]
    /\ diskConfig \in StartFiles
    /\ config = LoadConfig(diskConfig)
    /\ text_splitter = Splitter(config)
    /\ call = Call("load", "returned", "none", NoValue, "none")

\* A configuration handler: get_settings() reloads the singleton from the
\* file, the handler sets the attributes the body names, writes the file when
\* asked to (saves), and answers with to_dict().  The text splitter built at
\* start is not touched.
ConfigRequest(op, body, saves) ==
    /\ config' = SetAttrs(LoadConfig(diskConfig), body)
    /\ diskConfig' = IF saves THEN SaveConfig(config') ELSE diskConfig
    /\ call' = Call(op, "returned", "none",
                    [NoValue EXCEPT !.body = body, !.config = ToDict(config')],
                    "none")
    /\ UNCHANGED <<up, now, index, metadata, diskIndex, diskMeta, faulted,
                   lastSave, text_splitter>>

\* POST /api/config: update_config
UpdateConfig(body) ==
    /\ up
    /\ ConfigRequest("post_config", body, TRUE)

\* PUT /api/config: update_config_partial
UpdateConfigPartial(body) ==
    /\ up
    /\ ConfigRequest("put_config", body, TRUE)

\* GET /api/config: get_config
GetConfig ==
    /\ up
    /\ ConfigRequest("get_config", [k \in BodyKeys |-> <<>>], FALSE)

NextConfig ==
    \/ \E body \in Bodies : UpdateConfig(body)
    \/ \E body \in Bodies : UpdateConfigPartial(body)
    \/ GetConfig
    \/ Crash
    \/ Start

SpecConfig == InitConfig /\ [][NextConfig]_vars

\* ------------------------------------------------------------------ claims

Mutators == {"ingest", "delete", "clear"}

\* The records of meta that do not belong to doc_id, in order.
Others(meta, doc_id) == SelectSeq(meta, LAMBDA m : m.doc_id # doc_id)

HasDocument(meta, doc_id) == \E p \in DOMAIN meta : meta[p].doc_id = doc_id

\* C1: between operations the index holds as many vectors as the metadata
\* list holds records.
C1_LengthsAgree == up => Len(index) = Len(metadata)

\* C2: between operations, at every position that both structures hold, the
\* vector is the embedding of the text of the record at that position.
C2_PositionsAligned ==
    up => \A p \in DOMAIN metadata \cap DOMAIN index :
              index[p] = Embed(metadata[p].text)

\* C3: a delete_document(d) that is asked for a document with records and
\* that the process survives returns, and leaves exactly the records of the
\* other documents, in order, each with the vector that stood at its position.
C3_DeleteRemovesExactly ==
    [][\A d \in DocIds :
         (DeleteDocument(d) /\ HasDocument(metadata, d) /\ call'.pc # "crashed")
         => /\ call'.pc = "returned"
            /\ metadata' = Others(metadata, d)
            /\ Len(index') = Len(metadata')
            /\ \A i \in 1..Len(Keep(metadata, d)) :
                  /\ Keep(metadata, d)[i] <= Len(index)
                  /\ index'[i] = index[Keep(metadata, d)[i]]]_vars

\* C4: delete_document(d) for a d that no record carries raises not-found
\* and leaves the index, the metadata and both files as they were.
C4_DeleteUnknownChangesNothing ==
    [][\A d \in DocIds :
         (call'.op = "delete" /\ ~HasDocument(metadata, d) /\ DeleteDocument(d))
         => /\ call'.pc = "raised" /\ call'.error = "not_found"
            /\ UNCHANGED <<index, metadata, diskIndex, diskMeta>>]_vars

\* C4 witness: not-found was raised on a knowledge base that holds records.
C4_Witness ==
    up /\ call.op = "delete" /\ call.error = "not_found" /\ metadata # <<>>

\* C5: an ingest_document that raises leaves the index and the metadata as
\* they were before the call.
C5_IngestAllOrNothing ==
    [][\A f \in Files :
         (IngestDocument(f) /\ call'.pc = "raised")
         => UNCHANGED <<index, metadata>>]_vars

\* C6: retrieve and list_documents never run on a knowledge base in which a
\* mutation is half applied: vectors without their records, or records
\* without their vectors.
C6_ReadersSeeWholeMutations ==
    [][(ListDocuments \/ Retrieve) => Len(index) = Len(metadata)]_vars

\* C7: when a mutating call has returned, a load of the two files gives the
\* index and the metadata that are in memory.
C7_ReturnMeansPersisted ==
    (up /\ call.op \in Mutators /\ call.pc = "returned")
    => LoadIndex(diskIndex, diskMeta) = [index |-> index, metadata |-> metadata]

\* C8: when the process dies in a save, the two files are the pair they were
\* before the call, or the pair of the state that was being saved.
C8_InterruptedSaveIsWhole ==
    [][(call'.op \in Mutators /\ call'.pc = "crashed")
       => \/ <<diskIndex', diskMeta'>> = <<diskIndex, diskMeta>>
          \/ <<diskIndex', diskMeta'>> =
                <<WriteIndex(lastSave'.index), JsonDump(lastSave'.metadata)>>]_vars

\* C9: after _load_index the index and the metadata have the same length.
C9_LoadIsAllOrNothing ==
    (up /\ call.op = "load") => Len(index) = Len(metadata)

\* C10: a knowledge base loaded from files that a completed save wrote has
\* the vectors and the records that were saved, in the same order, and
\* retrieve answers every query on it as on the saved one.
C10_SaveLoadRoundTrip ==
    (up /\ call.op = "load" /\ lastSave.complete)
    => /\ index = lastSave.index
       /\ metadata = lastSave.metadata
       /\ \A query \in Queries, top_k \in TopK, stray \in StrayVectors \cup {<<>>} :
            RetrieveResult(index, metadata, query, top_k, stray)
            = RetrieveResult(lastSave.index, lastSave.metadata, query, top_k, stray)

\* C10 witness: a load after a completed save of two entries.
C10_Witness ==
    up /\ call.op = "load" /\ lastSave.complete /\ Len(lastSave.metadata) = 2
       /\ lastSave.metadata[1].text # lastSave.metadata[2].text

\* C11: retrieve never raises to its caller; on an empty metadata list it
\* returns the empty result, and when an exception occurs inside (embedding,
\* search or selection) it returns the empty result as well.
C11_RetrieveNeverRaises ==
    (call.op = "retrieve" /\ call.pc # "called")
    => /\ call.pc = "returned"
       /\ metadata = <<>> => call.value.results = <<>> /\ call.error = "none"
       /\ call.error # "none" => call.value.results = <<>>

\* C11 witness: reconstruct() raised inside a retrieve on a knowledge base
\* that holds records, and retrieve returned.
C11_Witness ==
    call.op = "retrieve" /\ call.error = "reconstruct_failed" /\ metadata # <<>>

\* a call of retrieve that has come back
Answered == call.op = "retrieve" /\ call.pc = "returned"

\* the fetch_k hits that the answered call got from index.search
Fetched ==
    Search(index, Embed(call.value.query),
           Min(call.value.top_k * 4, Len(metadata)))

\* what retrieve emits for a selected <<position, score>>
ResultAt(hit) ==
    [chunk  |-> metadata[hit[1]].text,
     source |-> <<metadata[hit[1]].filename, metadata[hit[1]].chunk_index>>,
     score  |-> hit[2]]

\* C12: on a knowledge base that is not empty, when every fetched candidate
\* scores below the threshold, retrieve returns min(top_k, number of records)
\* results, and they are the highest-scoring fetched candidates.
C12_FallbackReturnsTopK ==
    (/\ Answered /\ call.error # "embedding_failed"
     /\ metadata # <<>>
     /\ \A i \in DOMAIN Fetched : Fetched[i][2] < SCORE_THRESHOLD)
    => LET n == Min(call.value.top_k, Len(metadata))
       IN  /\ Len(call.value.results) = n
           /\ \A i \in 1..n :
                 /\ Fetched[i][1] \in DOMAIN metadata
                 /\ \E j \in 1..n : call.value.results[j] = ResultAt(Fetched[i])

\* C12 on knowledge bases whose index and metadata have the same length
C12_FallbackWhenAligned == Len(index) = Len(metadata) => C12_FallbackReturnsTopK

\* a fallback that returned something on an aligned knowledge base
C12_FallbackSeen ==
    /\ Answered /\ call.error = "none" /\ Len(index) = Len(metadata)
    /\ Len(metadata) >= 2 /\ call.value.top_k = 1
    /\ \A i \in DOMAIN Fetched : Fetched[i][2] < SCORE_THRESHOLD
    /\ Len(call.value.results) = 1

\* a call of _pack_sentences that has come back
Packed == call.op = "pack_sentences" /\ call.pc = "returned"

\* chunk is what _pack_sentences keeps of a window of _hard_split on one of
\* the sentences longer than chunk_size
IsFragment(chunk, sentences) ==
    \E k \in DOMAIN sentences :
       /\ Len(sentences[k]) > text_splitter.chunk_size
       /\ \E j \in DOMAIN HardSplit(text_splitter, sentences[k]) :
             Strip(HardSplit(text_splitter, sentences[k])[j]) = chunk

\* C13: with chunk_overlap < chunk_size, every chunk of _pack_sentences that
\* is not a fragment of a hard-split sentence, the chunks that open with
\* overlap sentences included, is at most chunk_size long.
C13_PackedChunkBound ==
    Packed =>
       \A i \in DOMAIN call.value.split :
          \/ IsFragment(call.value.split[i], call.value.sentences)
          \/ Len(call.value.split[i]) <= text_splitter.chunk_size

\* C13 without overlap: the bound holds when chunk_overlap = 0
C13_BoundWithoutOverlap == text_splitter.chunk_overlap = 0 => C13_PackedChunkBound

\* after a clear_all that returned: memory is empty, list_documents finds no
\* document and retrieve no chunk
C14_ClearEmptiesMemory ==
    (up /\ call.op = "clear" /\ call.pc = "returned")
    => /\ index = <<>> /\ metadata = <<>>
       /\ ListDocs(metadata) = <<>>
       /\ \A query \in Queries, top_k \in TopK :
             RetrieveCall(index, metadata, query, top_k, <<>>, "none").results = <<>>

\* C14: after clear_all returns, from any state, the index and the metadata
\* are empty and that empty state is what the files hold; list_documents
\* then returns no document and retrieve returns empty lists.
C14_ClearIsPersisted ==
    (up /\ call.op = "clear" /\ call.pc = "returned")
    => /\ C14_ClearEmptiesMemory
       /\ LoadIndex(diskIndex, diskMeta) = [index |-> <<>>, metadata |-> <<>>]

\* a call of list_documents that has come back
Listed == call.op = "list" /\ call.pc = "returned"

\* created_at t is not later than created_at u
NotAfter(t, u) == t[1] < u[1] \/ (t[1] = u[1] /\ t[2] <= u[2])

RECURSIVE SumChunks(_)
\* the chunk counts of the summaries, added up
SumChunks(docs) ==
    IF docs = <<>> THEN 0 ELSE Head(docs).chunks + SumChunks(Tail(docs))

\* C15: list_documents returns exactly one summary for each doc_id that the
\* metadata holds; its chunk count is the number of records with that doc_id,
\* so the counts add up to the number of records; its created_at is the
\* earliest created_at of those records.
C15_ListGroupsByDocument ==
    Listed =>
       LET docs == call.value.documents
       IN  /\ \A p \in DOMAIN metadata :
                 \E k \in DOMAIN docs : docs[k].doc_id = metadata[p].doc_id
           /\ \A k, l \in DOMAIN docs : docs[k].doc_id = docs[l].doc_id => k = l
           /\ \A k \in DOMAIN docs :
                 LET records == {p \in DOMAIN metadata :
                                    metadata[p].doc_id = docs[k].doc_id}
                 IN  /\ records # {}
                     /\ docs[k].chunks = Cardinality(records)
                     /\ \E p \in records :
                           /\ docs[k].created_at = metadata[p].created_at
                           /\ \A q \in records :
                                 NotAfter(metadata[p].created_at, metadata[q].created_at)
           /\ SumChunks(docs) = Len(metadata)

\* C15 witness: a listing of two documents, one of them with two records
\* stamped at different times.
C15_Witness ==
    /\ Listed /\ Len(call.value.documents) = 2 /\ Len(metadata) = 3
    /\ \E p, q \in DOMAIN metadata :
          /\ metadata[p].doc_id = metadata[q].doc_id
          /\ metadata[p].created_at # metadata[q].created_at

\* C16: after POST /api/config the stored configuration is the one the
\* request body gives: a key of the body has the body's value, and a key the
\* body does not hold has its default, not the value it had before.
C16_PostReplacesConfiguration ==
    (call.op = "post_config" /\ call.pc = "returned")
    => \A k \in ConfigKeys :
          LoadConfig(diskConfig)[k] =
             IF call.value.body[k] # <<>> THEN call.value.body[k][1] ELSE Defaults[k]

\* what POST /api/config does store: the keys of the body, over the values
\* the file held before
C16_PostMergesIntoFile ==
    [][\A body \in Bodies :
          UpdateConfig(body)
          => LoadConfig(diskConfig') = SetAttrs(LoadConfig(diskConfig), body)]_vars

RECURSIVE RestAfter(_, _, _)
\* the candidates that are left once the first i picks are taken out
RestAfter(candidates, picks, i) ==
    IF i = 0 THEN candidates
    ELSE Remove(RestAfter(candidates, picks, i - 1), picks[i])

\* pick number i is, among the candidates left before it, the first one with
\* the greatest score: the relevance for the first pick, afterwards
\* 0.7 * relevance - 0.3 * the greatest similarity to an earlier pick
\* (relevance and similarity in hundredths, the score in thousandths)
IsMmrPick(candidates, picks, i, stray) ==
    LET rest == RestAfter(candidates, picks, i - 1)
        sim(c, s) == Dot(GetVector(index, c[1], stray), GetVector(index, s[1], stray))
        penalty(c) == CHOOSE x \in {sim(c, picks[h]) : h \in 1..(i - 1)} :
                         \A h \in 1..(i - 1) : x >= sim(c, picks[h])
        score(c) == IF i = 1 THEN c[2] ELSE 7 * c[2] - 3 * penalty(c)
    IN  \E p \in DOMAIN rest :
           /\ rest[p] = picks[i]
           /\ \A j \in DOMAIN rest : score(rest[j]) <= score(rest[p])
           /\ \A j \in 1..(p - 1) : score(rest[j]) < score(rest[p])

\* C17: the first result of retrieve is the candidate of the highest
\* relevance; each later one is the remaining candidate with the greatest
\* 0.7 * relevance - 0.3 * (greatest similarity to an earlier pick), the
\* first such candidate in candidate order when several are equal; the
\* results carry the picks' scores in pick order.
C17_MmrOrder ==
    (Answered /\ call.error = "none" /\ metadata # <<>>)
    => \E stray \in StrayVectors \cup {<<>>} :
          LET query == call.value.query
              top_k == call.value.top_k
              candidates == RetrieveCandidates(index, metadata, query, top_k)
              picks == MmrSelect(index, candidates, top_k, stray)
          IN  /\ RetrieveError(index, metadata, query, top_k, stray, "none") = "none"
              /\ Len(call.value.results) = Len(picks)
              /\ \A i \in DOMAIN picks :
                    /\ call.value.results[i].score = picks[i][2]
                    /\ IsMmrPick(candidates, picks, i, stray)

\* C17 witness: three results where the second scored lower than the third:
\* the near-duplicate of the first pick lost its place to a distinct chunk.
C17_Witness ==
    /\ Answered /\ call.error = "none" /\ Len(index) = Len(metadata)
    /\ Len(call.value.results) = 3
    /\ call.value.results[2].score < call.value.results[3].score
    /\ \E p, q \in DOMAIN index : p # q /\ Dot(index[p], index[q]) > 95

\* C18: retrieve returns n results, n the smaller of top_k and the number of
\* candidates left by the threshold filter or the fallback; they come from
\* pairwise distinct positions of the metadata, and result i has the text,
\* the filename and chunk index of the record at its position and the score
\* that the search gave that position.
C18_ResultsAreLedgerRecords ==
    (Answered /\ call.error # "embedding_failed")
    => LET results == call.value.results
           candidates ==
               IF metadata = <<>> THEN <<>>
               ELSE RetrieveCandidates(index, metadata, call.value.query,
                                       call.value.top_k)
           n == Min(call.value.top_k, Len(candidates))
       IN  /\ Len(results) = n
           /\ \E at \in [1..n -> DOMAIN Fetched] :
                 /\ \A i, j \in 1..n : at[i] = at[j] => i = j
                 /\ \A i \in 1..n :
                       /\ Fetched[at[i]][1] \in DOMAIN metadata
                       /\ results[i] = ResultAt(Fetched[at[i]])

\* C18 on knowledge bases whose index and metadata have the same length
C18_ResultsWhenAligned == Len(index) = Len(metadata) => C18_ResultsAreLedgerRecords

\* three results from an aligned knowledge base
C18_ThreeResultsSeen ==
    Answered /\ Len(index) = Len(metadata) /\ Len(call.value.results) = 3

\* C19: when at least one of the fetch_k fetched candidates scores at or
\* above the threshold, every result of retrieve scores at or above it, also
\* when fewer than top_k candidates do.
C19_ThresholdFilter ==
    (/\ Answered /\ metadata # <<>>
     /\ \E h \in DOMAIN Fetched : Fetched[h][2] >= SCORE_THRESHOLD)
    => \A i \in DOMAIN call.value.results :
          call.value.results[i].score >= SCORE_THRESHOLD

\* C19 on knowledge bases whose index and metadata have the same length
C19_FilterWhenAligned == Len(index) = Len(metadata) => C19_ThresholdFilter

\* fewer results than top_k and than records, because the others scored
\* below the threshold
C19_FilterSeen ==
    /\ Answered /\ call.error = "none" /\ Len(index) = Len(metadata)
    /\ call.value.results # <<>>
    /\ Len(call.value.results) < call.value.top_k
    /\ Len(call.value.results) < Len(metadata)

\* what _pack_sentences returns for the sentences before number k, and for
\* those after it, each on their own
PackedBefore(k) ==
    PackSentences(text_splitter, SubSeq(call.value.sentences, 1, k - 1))
PackedAfter(k) ==
    PackSentences(text_splitter,
                  SubSeq(call.value.sentences, k + 1, Len(call.value.sentences)))

\* the chunks that the call returned between those two
FragmentsOf(k) ==
    SubSeq(call.value.split, Len(PackedBefore(k)) + 1,
           Len(call.value.split) - Len(PackedAfter(k)))

\* the sentences before and after sentence k are packed as if it were not
\* there: what was pending is flushed, and no overlap sentence crosses it
SplitStandsAlone(k) ==
    /\ Len(PackedBefore(k)) + Len(PackedAfter(k)) < Len(call.value.split)
    /\ SubSeq(call.value.split, 1, Len(PackedBefore(k))) = PackedBefore(k)
    /\ SubSeq(call.value.split,
              Len(call.value.split) - Len(PackedAfter(k)) + 1,
              Len(call.value.split)) = PackedAfter(k)

\* the fragments of sentence k are its windows at every
\* chunk_size - chunk_overlap characters, all of them chunk_size long except
\* possibly the last, which ends the sentence
FixedWindows(k) ==
    LET text == call.value.sentences[k]
        size == text_splitter.chunk_size
        step == text_splitter.chunk_size - text_splitter.chunk_overlap
        fragments == FragmentsOf(k)
    IN  /\ \A j \in DOMAIN fragments :
              fragments[j] = SubSeq(text, (j - 1) * step + 1,
                                    Min((j - 1) * step + size, Len(text)))
        /\ \A j \in 1..(Len(fragments) - 1) : Len(fragments[j]) = size
        /\ (Len(fragments) - 1) * step + Len(fragments[Len(fragments)]) = Len(text)

\* C20: for a sentence longer than chunk_size (chunk_overlap < chunk_size),
\* the pending chunk is flushed first and no overlap is carried into or out
\* of the split; the fragments are windows at every chunk_size - chunk_overlap
\* characters, each exactly chunk_size long except possibly the last one.
C20_HardSplitWindows ==
    Packed =>
       \A k \in DOMAIN call.value.sentences :
          Len(call.value.sentences[k]) > text_splitter.chunk_size
          => SplitStandsAlone(k) /\ FixedWindows(k)

\* the first half of C20: flushing, and no overlap across the split
C20_NoOverlapAcrossSplit ==
    Packed =>
       \A k \in DOMAIN call.value.sentences :
          Len(call.value.sentences[k]) > text_splitter.chunk_size
          => SplitStandsAlone(k)

\* a hard split between two packed chunks
C20_SplitBetweenSeen ==
    /\ Packed /\ Len(call.value.sentences) = 3
    /\ Len(call.value.sentences[1]) <= text_splitter.chunk_size
    /\ Len(call.value.sentences[2]) > text_splitter.chunk_size
    /\ Len(call.value.sentences[3]) <= text_splitter.chunk_size
    /\ text_splitter.chunk_overlap > 0

\* the sentences of the answered call, and the chunks _pack_sentences gives
\* for all of them but the last
Sentences == call.value.sentences
PackedBeforeLast ==
    PackSentences(text_splitter, SubSeq(Sentences, 1, Len(Sentences) - 1))

\* The last sentence S overflowed the chunk that was open and closed it: S
\* and the sentence before it are no longer than chunk_size, and with S the
\* call returned one chunk more than without.
LastSentenceOverflowed ==
    /\ Packed /\ Len(Sentences) >= 2
    /\ Len(Sentences[Len(Sentences)]) <= text_splitter.chunk_size
    /\ Len(Sentences[Len(Sentences) - 1]) <= text_splitter.chunk_size
    /\ Len(call.value.split) = Len(PackedBeforeLast) + 1

\* where the just-closed chunk starts: it is the sentences from there up to
\* the one before S
ClosedFrom ==
    CHOOSE a \in 1..(Len(Sentences) - 1) :
       Join(SubSeq(Sentences, a, Len(Sentences) - 1))
       = PackedBeforeLast[Len(PackedBeforeLast)]

\* The chunk opened by S is the sentences from position b on, where b is the
\* first position of the closed chunk from which the sentences up to the one
\* before S weigh at most chunk_overlap, each sentence weighing its length
\* plus space (b is the position of S when not even the last one does).
OverlapCarried(space) ==
    LET n == Len(Sentences)
        weight(b) == SumLen(SubSeq(Sentences, b, n - 1)) + space * (n - b)
        b == CHOOSE b \in ClosedFrom..n :
                /\ weight(b) <= text_splitter.chunk_overlap
                /\ \A c \in ClosedFrom..(b - 1) : weight(c) > text_splitter.chunk_overlap
    IN  call.value.split[Len(call.value.split)] = Join(SubSeq(Sentences, b, n))

C21_ExactFitSeen ==
    /\ LastSentenceOverflowed
    /\ Len(Sentences[Len(Sentences) - 1]) = text_splitter.chunk_overlap
    /\ call.value.split[Len(call.value.split)] = Sentences[Len(Sentences)]

\* an ingest_document of file f that returned to its caller
Ingests(f) == call'.op = "ingest" /\ call'.pc = "returned" /\ IngestDocument(f)

\* what was stored before the call is still there, at the same positions
KeepsWhatWasStored ==
    /\ Len(index') >= Len(index) /\ SubSeq(index', 1, Len(index)) = index
    /\ Len(metadata') >= Len(metadata)
    /\ SubSeq(metadata', 1, Len(metadata)) = metadata

\* C22: an ingest_document that returns keeps every entry that was there, at
\* its position, with its vector and its record, and adds exactly as many
\* entries as the count it returns, at the end: entry i of them is the vector
\* and the record of chunk i, with chunk_index i - 1 and the returned doc_id.
C22_IngestAppendsOnly ==
    [][\A f \in Files :
         Ingests(f)
         => /\ KeepsWhatWasStored
            /\ call'.value.chunks = Len(Chunks[f])
            /\ Len(index') = Len(index) + call'.value.chunks
            /\ Len(metadata') = Len(metadata) + call'.value.chunks
            /\ \A i \in 1..call'.value.chunks :
                  LET p == Len(metadata) + i
                  IN  /\ metadata'[p].text = Chunks[f][i]
                      /\ metadata'[p].chunk_index = i - 1
                      /\ metadata'[p].doc_id = call'.value.doc_id
                      /\ p > Len(index) /\ p <= Len(index')
                      /\ index'[p] = Embed(Chunks[f][i])]_vars

\* C22 for calls on a knowledge base whose index and metadata have the same
\* length
C22_AppendsWhenAligned ==
    [][\A f \in Files :
         (Ingests(f) /\ Len(index) = Len(metadata))
         => /\ KeepsWhatWasStored
            /\ Len(index') = Len(index) + call'.value.chunks
            /\ Len(metadata') = Len(metadata) + call'.value.chunks
            /\ \A i \in 1..call'.value.chunks :
                  LET p == Len(metadata) + i
                  IN  /\ metadata'[p].text = Chunks[f][i]
                      /\ metadata'[p].chunk_index = i - 1
                      /\ metadata'[p].doc_id = call'.value.doc_id
                      /\ index'[p] = Embed(Chunks[f][i])]_vars

\* the part of C22 that holds from every state: nothing stored is moved or
\* changed, and the vectors and the records of the chunks are appended
C22_IngestKeepsPrefixes ==
    [][\A f \in Files :
         Ingests(f)
         => /\ KeepsWhatWasStored
            /\ Len(index') = Len(index) + call'.value.chunks
            /\ Len(metadata') = Len(metadata) + call'.value.chunks]_vars

\* C23: an ingest_document that returns made a document of its own: no
\* record held the returned doc_id before; list_documents afterwards has one
\* entry for it, with the returned chunk count; and what delete_document of
\* that doc_id would keep is exactly what was there before the call.
C23_IngestMakesItsOwnDocument ==
    [][\A f \in Files :
         Ingests(f)
         => /\ ~HasDocument(metadata, call'.value.doc_id)
            /\ \E k \in DOMAIN ListDocs(metadata') :
                  /\ ListDocs(metadata')[k].doc_id = call'.value.doc_id
                  /\ ListDocs(metadata')[k].chunks = call'.value.chunks
            /\ Others(metadata', call'.value.doc_id) = metadata]_vars

\* C23 for calls whose doc_id no record holds yet
C23_OwnDocumentWhenFresh ==
    [][\A f \in Files :
         (Ingests(f) /\ ~HasDocument(metadata, <<now, f.filename>>))
         => /\ \E k \in DOMAIN ListDocs(metadata') :
                  /\ ListDocs(metadata')[k].doc_id = call'.value.doc_id
                  /\ ListDocs(metadata')[k].chunks = call'.value.chunks
            /\ Others(metadata', call'.value.doc_id) = metadata]_vars
====
